---- MODULE Spec2Model ----
(***************************************************************************)
(* Event analytics service: the idempotent event store (PostgresStore),   *)
(* the API key middleware and the handlers of the four routes.             *)
(*                                                                         *)
(* The events table is a set of committed rows; a row written by an INSERT *)
(* whose transaction has not committed yet sits in `pending`, where no     *)
(* reader sees it.  Time is counted in ticks of half a microsecond, so     *)
(* that the microsecond resolution of the TIMESTAMPTZ column is visible.   *)
(***************************************************************************)
EXTENDS Integers, FiniteSets, Sequences, TLC

VARIABLES events, pending, dbUp, pc, req, res, before, hreq, keys

vars == <<events, pending, dbUp, pc, req, res, before, hreq, keys>>

(***************************************************************************)
(* Bounds of the model.                                                    *)
(***************************************************************************)
NProcs == 2
MaxTime == 2
MaxRows == 2

Procs == 1..NProcs
SeqProc == CHOOSE p \in Procs : \A q \in Procs : p <= q
Times == 0..MaxTime

(***************************************************************************)
(* Input domains.                                                          *)
(***************************************************************************)
Tenants == {"tenant1", "tenant2"}
EventIDs == {"e1", "e2"}
EventNames == {"login", "purchase"}
NilProps == "nil"
EmptyProps == "map[]"
WebProps == "map[source:web]"
Properties == {NilProps, WebProps}
\* a map holding a value json.Marshal has no encoding for
BadProps == "map[f:func]"

\* cfg.APIKeys: API_KEYS="tenant1:key1,tenant2:key2"
APIKeys == ("key1" :> "tenant1") @@ ("key2" :> "tenant2")

NoReq == [op |-> "none"]
NoRes == [kind |-> "none"]
NoHttp == [route |-> "none"]

(***************************************************************************)
(* HTTP status codes used by the handlers.                                 *)
(***************************************************************************)
StatusOK == 200
StatusCreated == 201
StatusInternalServerError == 500
StatusBadRequest == 400
StatusUnauthorized == 401
StatusServiceUnavailable == 503

(***************************************************************************)
(* Storage encoding.                                                       *)
(***************************************************************************)
\* ticks per microsecond: a tick is 500ns
TicksPerMicro == 2

\* A time.Time bound to a TIMESTAMPTZ parameter or column keeps whole
\* microseconds only.
ToTimestamptz(t) == (t \div TicksPerMicro) * TicksPerMicro

\* Window bounds reach one microsecond past the last event time.
Bounds == 0..(MaxTime + TicksPerMicro)

\* properties == nil is replaced by the empty map before marshalling.
NormalizeProps(properties) == IF properties = NilProps THEN EmptyProps ELSE properties

\* json.Marshal returns an error for the map.
MarshalFails(properties) == properties = BadProps

\* json.Marshal of the properties map.
Marshal(properties) ==
  CASE properties = EmptyProps -> "{}"
    [] properties = WebProps -> "{\"source\":\"web\"}"
    [] OTHER -> "null"

(***************************************************************************)
(* The events table.                                                       *)
(***************************************************************************)
\* Mutant: the table has no unique key, nothing ever conflicts.
ConflictNever(table, tenantID, eventID) == FALSE

\* Mutant: the key is event_id alone.
ConflictOnEventID(table, tenantID, eventID) ==
  \E r \in table : r.event_id = eventID

\* PRIMARY KEY (tenant_id, event_id): the conflict target of the INSERT.
Conflict(table, tenantID, eventID) ==
  \E r \in table : r.tenant_id = tenantID /\ r.event_id = eventID

\* The row the INSERT of call p writes.
NewRow(p, tenantID, eventID, eventName, ts, properties) ==
  [tenant_id |-> tenantID, event_id |-> eventID, event_name |-> eventName,
   ts |-> ToTimestamptz(ts),
   properties |-> Marshal(NormalizeProps(properties)),
   call |-> p]

RowOf(p) ==
  NewRow(p, req[p].tenantID, req[p].eventID, req[p].eventName, req[p].ts,
         req[p].properties)

\* Mutant: the comparison with the end of the window is turned round.
MatchingFromEnd(table, tenantID, eventName, from, to) ==
  {r \in table : /\ r.tenant_id = tenantID
                 /\ r.event_name = eventName
                 /\ r.ts >= ToTimestamptz(from)
                 /\ r.ts >= ToTimestamptz(to)}

\* Mutant: the tenant filter is missing from the WHERE clause.
MatchingAnyTenant(table, tenantID, eventName, from, to) ==
  {r \in table : /\ r.event_name = eventName
                 /\ r.ts >= ToTimestamptz(from)
                 /\ r.ts < ToTimestamptz(to)}

\* Mutant: the event_name filter is missing from the WHERE clause.
MatchingAnyName(table, tenantID, eventName, from, to) ==
  {r \in table : /\ r.tenant_id = tenantID
                 /\ r.ts >= ToTimestamptz(from)
                 /\ r.ts < ToTimestamptz(to)}

\* Mutant: the window is closed at its end, ts <= $4.
MatchingClosedEnd(table, tenantID, eventName, from, to) ==
  {r \in table : /\ r.tenant_id = tenantID
                 /\ r.event_name = eventName
                 /\ r.ts >= ToTimestamptz(from)
                 /\ r.ts <= ToTimestamptz(to)}

\* WHERE tenant_id=$1 AND event_name=$2 AND ts >= $3 AND ts < $4
Matching(table, tenantID, eventName, from, to) ==
  {r \in table : /\ r.tenant_id = tenantID
                 /\ r.event_name = eventName
                 /\ r.ts >= ToTimestamptz(from)
                 /\ r.ts < ToTimestamptz(to)}

\* SELECT COUNT(*) over the committed rows.
CountEvents(table, tenantID, eventName, from, to) ==
  Cardinality(Matching(table, tenantID, eventName, from, to))

(***************************************************************************)
(* Results: what the store method returns and what the handler answers.    *)
(***************************************************************************)
\* Mutant: the two success codes are exchanged.
EventResponseSwapped(eventID, inserted, err) ==
  IF err
  THEN [status |-> StatusInternalServerError, body |-> [error |-> "db insert failed"]]
  ELSE [status |-> IF inserted THEN StatusOK ELSE StatusCreated,
        body |-> [event_id |-> eventID, duplicate |-> ~inserted]]

\* POST /events: 500 on error, 201 for a new event, 200 for a duplicate.
EventResponse(eventID, inserted, err) ==
  IF err
  THEN [status |-> StatusInternalServerError, body |-> [error |-> "db insert failed"]]
  ELSE [status |-> IF inserted THEN StatusCreated ELSE StatusOK,
        body |-> [event_id |-> eventID, duplicate |-> ~inserted]]

\* Mutant: the handler drops the error and answers with the count it got.
MetricsResponseSwallow(eventName, count, err) ==
  [status |-> StatusOK, body |-> [event_name |-> eventName, count |-> count]]

\* GET /metrics: 500 on error, 200 with the count otherwise.
MetricsResponse(eventName, count, err) ==
  IF err
  THEN [status |-> StatusInternalServerError, body |-> [error |-> "db query failed"]]
  ELSE [status |-> StatusOK, body |-> [event_name |-> eventName, count |-> count]]

\* What Scan gives InsertEvent: nil with the returned row, pgx's no-rows
\* error when the INSERT did nothing, any other error.
ScanOK == "nil"
ErrNoRows == "no rows in result set"
ErrQuery == "query failed"

\* Mutant: every error of Scan is taken for the no-rows answer.
InsertReturnErrAsDuplicate(scanErr) ==
  IF scanErr = ScanOK
  THEN [inserted |-> TRUE, err |-> FALSE]
  ELSE [inserted |-> FALSE, err |-> FALSE]

\* Mutant: every error of Scan but a true failure counts as inserted.
InsertReturnNoRowsInserted(scanErr) ==
  IF scanErr = ScanOK \/ scanErr = "no rows in result set"
  THEN [inserted |-> TRUE, err |-> FALSE]
  ELSE [inserted |-> FALSE, err |-> TRUE]

\* (inserted, err) of InsertEvent from the error of Scan.
InsertReturn(scanErr) ==
  IF scanErr = ScanOK
  THEN [inserted |-> TRUE, err |-> FALSE]
  ELSE IF scanErr = "no rows in result set"
       THEN [inserted |-> FALSE, err |-> FALSE]
       ELSE [inserted |-> FALSE, err |-> TRUE]

InsertResult(p, scanErr) ==
  [kind |-> "ingest", inserted |-> InsertReturn(scanErr).inserted,
   err |-> InsertReturn(scanErr).err,
   resp |-> EventResponse(req[p].eventID, InsertReturn(scanErr).inserted,
                          InsertReturn(scanErr).err)]

CountResult(p, count, err) ==
  [kind |-> "count", count |-> count, err |-> err,
   resp |-> MetricsResponse(req[p].eventName, count, err)]

Done == {q \in Procs : pc[q] = "done"}

(***************************************************************************)
(* Initial state: schema applied, empty table, no call in progress, the    *)
(* map of the middleware as config.Load built it.                          *)
(***************************************************************************)
Init ==
  /\ events = {}
  /\ pending = {}
  /\ dbUp = TRUE
  /\ pc = [p \in Procs |-> "idle"]
  /\ req = [p \in Procs |-> NoReq]
  /\ res = [p \in Procs |-> NoRes]
  /\ before = [p \in Procs |-> {}]
  /\ hreq = [p \in Procs |-> NoHttp]
  /\ keys = APIKeys

(***************************************************************************)
(* InsertEvent.                                                            *)
(***************************************************************************)
\* The call is made: the required-field check, then the statement is sent.
StartIngest(p, tenantID, eventID, eventName, ts, properties) ==
  /\ pc[p] = "idle"
  /\ \/ Conflict(events, tenantID, eventID)
     \/ Cardinality(events) + Cardinality(pending) < MaxRows
  /\ req' = [req EXCEPT ![p] = [op |-> "ingest", tenantID |-> tenantID,
                                eventID |-> eventID, eventName |-> eventName,
                                ts |-> ts, properties |-> properties]]
  /\ before' = [before EXCEPT ![p] = Done]
  /\ IF \/ tenantID = "" \/ eventID = "" \/ eventName = ""
        \/ MarshalFails(NormalizeProps(properties))
     THEN /\ pc' = [pc EXCEPT ![p] = "done"]
          /\ res' = [res EXCEPT ![p] =
                       [kind |-> "ingest", inserted |-> FALSE, err |-> TRUE,
                        resp |-> EventResponse(eventID, FALSE, TRUE)]]
     ELSE /\ pc' = [pc EXCEPT ![p] = "insert"]
          /\ res' = res
  /\ UNCHANGED <<events, pending, dbUp>>

\* Mutant: ON CONFLICT DO UPDATE with the no-rows answer kept: the stored
\* row takes the payload of the duplicate.
ExecInsertOverwrite(p) ==
  /\ pc[p] = "insert"
  /\ \/ /\ pc' = [pc EXCEPT ![p] = "done"]
        /\ res' = [res EXCEPT ![p] = InsertResult(p, ErrQuery)]
        /\ UNCHANGED <<events, pending>>
     \/ /\ dbUp
        /\ Conflict(events, req[p].tenantID, req[p].eventID)
        /\ events' = {r \in events : ~(r.tenant_id = req[p].tenantID
                                        /\ r.event_id = req[p].eventID)}
                      \cup {RowOf(p)}
        /\ pc' = [pc EXCEPT ![p] = "done"]
        /\ res' = [res EXCEPT ![p] = InsertResult(p, ErrNoRows)]
        /\ UNCHANGED pending
     \/ /\ dbUp
        /\ ~Conflict(events, req[p].tenantID, req[p].eventID)
        /\ ~Conflict(pending, req[p].tenantID, req[p].eventID)
        /\ pending' = pending \cup {RowOf(p)}
        /\ pc' = [pc EXCEPT ![p] = "pending"]
        /\ res' = res
        /\ UNCHANGED events
  /\ UNCHANGED <<dbUp, req, before>>

\* Mutant: check, then insert; an uncommitted row of another call with the
\* same key is not waited for.
ExecInsertNoWait(p) ==
  /\ pc[p] = "insert"
  /\ \/ /\ pc' = [pc EXCEPT ![p] = "done"]
        /\ res' = [res EXCEPT ![p] = InsertResult(p, ErrQuery)]
        /\ UNCHANGED pending
     \/ /\ dbUp
        /\ Conflict(events, req[p].tenantID, req[p].eventID)
        /\ pc' = [pc EXCEPT ![p] = "done"]
        /\ res' = [res EXCEPT ![p] = InsertResult(p, ErrNoRows)]
        /\ UNCHANGED pending
     \/ /\ dbUp
        /\ ~Conflict(events, req[p].tenantID, req[p].eventID)
        /\ pending' = pending \cup {RowOf(p)}
        /\ pc' = [pc EXCEPT ![p] = "pending"]
        /\ res' = res
  /\ UNCHANGED <<events, dbUp, req, before>>

\* Mutant: a statement that fails is followed by a DELETE of the key, which
\* takes away the row an earlier attempt committed.
ExecInsertCleanupOnError(p) ==
  /\ pc[p] = "insert"
  /\ \/ /\ pc' = [pc EXCEPT ![p] = "done"]
        /\ res' = [res EXCEPT ![p] = InsertResult(p, ErrQuery)]
        /\ events' = {r \in events : ~(r.tenant_id = req[p].tenantID
                                        /\ r.event_id = req[p].eventID)}
        /\ UNCHANGED pending
     \/ /\ dbUp
        /\ Conflict(events, req[p].tenantID, req[p].eventID)
        /\ pc' = [pc EXCEPT ![p] = "done"]
        /\ res' = [res EXCEPT ![p] = InsertResult(p, ErrNoRows)]
        /\ UNCHANGED <<events, pending>>
     \/ /\ dbUp
        /\ ~Conflict(events, req[p].tenantID, req[p].eventID)
        /\ ~Conflict(pending, req[p].tenantID, req[p].eventID)
        /\ pending' = pending \cup {RowOf(p)}
        /\ pc' = [pc EXCEPT ![p] = "pending"]
        /\ res' = res
        /\ UNCHANGED events
  /\ UNCHANGED <<dbUp, req, before>>

\* INSERT ... ON CONFLICT (tenant_id, event_id) DO NOTHING RETURNING 1
ExecInsert(p) ==
  /\ pc[p] = "insert"
  /\ \/ \* the statement fails before it writes: unreachable storage, a
        \* cancelled context, a query error
        /\ pc' = [pc EXCEPT ![p] = "done"]
        /\ res' = [res EXCEPT ![p] = InsertResult(p, ErrQuery)]
        /\ UNCHANGED pending
     \/ \* a committed row holds the key: no row is returned
        /\ dbUp
        /\ Conflict(events, req[p].tenantID, req[p].eventID)
        /\ pc' = [pc EXCEPT ![p] = "done"]
        /\ res' = [res EXCEPT ![p] = InsertResult(p, ErrNoRows)]
        /\ UNCHANGED pending
     \/ \* the key is free: the row is written, not yet committed; an
        \* uncommitted row of another call with the key makes this call wait
        /\ dbUp
        /\ ~Conflict(events, req[p].tenantID, req[p].eventID)
        /\ ~Conflict(pending, req[p].tenantID, req[p].eventID)
        /\ pending' = pending \cup {RowOf(p)}
        /\ pc' = [pc EXCEPT ![p] = "pending"]
        /\ res' = res
  /\ UNCHANGED <<events, dbUp, req, before>>

\* The INSERT commits; RETURNING 1 reaches the caller, or the connection is
\* lost after the commit and the caller gets an error.
Commit(p) ==
  /\ pc[p] = "pending"
  /\ dbUp
  /\ events' = events \cup {RowOf(p)}
  /\ pending' = pending \ {RowOf(p)}
  /\ pc' = [pc EXCEPT ![p] = "done"]
  /\ \/ res' = [res EXCEPT ![p] = InsertResult(p, ScanOK)]
     \/ res' = [res EXCEPT ![p] = InsertResult(p, ErrQuery)]
  /\ UNCHANGED <<dbUp, req, before>>

\* The INSERT is rolled back before it commits.
Abort(p) ==
  /\ pc[p] = "pending"
  /\ pending' = pending \ {RowOf(p)}
  /\ pc' = [pc EXCEPT ![p] = "done"]
  /\ res' = [res EXCEPT ![p] = InsertResult(p, ErrQuery)]
  /\ UNCHANGED <<events, dbUp, req, before>>

(***************************************************************************)
(* CountEvents.                                                            *)
(***************************************************************************)
StartCount(p, tenantID, eventName, from, to) ==
  /\ pc[p] = "idle"
  /\ from < to
  /\ req' = [req EXCEPT ![p] = [op |-> "count", tenantID |-> tenantID,
                                eventName |-> eventName, from |-> from, to |-> to]]
  /\ before' = [before EXCEPT ![p] = Done]
  /\ pc' = [pc EXCEPT ![p] = "count"]
  /\ UNCHANGED <<events, pending, dbUp, res>>

\* Mutant: the SELECT also sees rows that are not committed.
ExecCountDirty(p) ==
  /\ pc[p] = "count"
  /\ \/ /\ dbUp
        /\ res' = [res EXCEPT ![p] =
                     CountResult(p, CountEvents(events \cup pending, req[p].tenantID,
                                                req[p].eventName, req[p].from,
                                                req[p].to), FALSE)]
     \/ res' = [res EXCEPT ![p] = CountResult(p, 0, TRUE)]
  /\ pc' = [pc EXCEPT ![p] = "done"]
  /\ UNCHANGED <<events, pending, dbUp, req, before>>

\* Mutant: the rows are counted by a DELETE ... RETURNING, which removes them.
ExecCountConsumes(p) ==
  /\ pc[p] = "count"
  /\ \/ /\ dbUp
        /\ res' = [res EXCEPT ![p] =
                     CountResult(p, CountEvents(events, req[p].tenantID,
                                                req[p].eventName, req[p].from,
                                                req[p].to), FALSE)]
        /\ events' = events \ Matching(events, req[p].tenantID, req[p].eventName,
                                        req[p].from, req[p].to)
     \/ /\ res' = [res EXCEPT ![p] = CountResult(p, 0, TRUE)]
        /\ events' = events
  /\ pc' = [pc EXCEPT ![p] = "done"]
  /\ UNCHANGED <<pending, dbUp, req, before>>

\* SELECT COUNT(*) ... : one statement, reading the committed rows
ExecCount(p) ==
  /\ pc[p] = "count"
  /\ \/ /\ dbUp
        /\ res' = [res EXCEPT ![p] =
                     CountResult(p, CountEvents(events, req[p].tenantID,
                                                req[p].eventName, req[p].from,
                                                req[p].to), FALSE)]
     \/ res' = [res EXCEPT ![p] = CountResult(p, 0, TRUE)]
  /\ pc' = [pc EXCEPT ![p] = "done"]
  /\ UNCHANGED <<events, pending, dbUp, req, before>>

(***************************************************************************)
(* EnsureSchema.                                                           *)
(***************************************************************************)
\* Mutant: the script drops the relation before it creates it.
CreateTableDropFirst(exists, table) == {}

\* CREATE TABLE IF NOT EXISTS events (... PRIMARY KEY (tenant_id, event_id)):
\* a relation that exists is kept as it is, rows and key; CREATE INDEX IF NOT
\* EXISTS touches no row.
CreateTableIfNotExists(exists, table) == IF exists THEN table ELSE {}

\* schema.sql is run again, by a restart or by another instance of the
\* service, on the database this one serves from; the relation exists since
\* the startup of Init.
EnsureSchema(p) ==
  /\ pc[p] = "idle"
  /\ req' = [req EXCEPT ![p] = [op |-> "schema"]]
  /\ before' = [before EXCEPT ![p] = Done]
  /\ pc' = [pc EXCEPT ![p] = "done"]
  /\ \/ /\ dbUp
        /\ events' = CreateTableIfNotExists(TRUE, events)
        /\ res' = [res EXCEPT ![p] = [kind |-> "schema", err |-> FALSE]]
     \/ /\ events' = events
        /\ res' = [res EXCEPT ![p] = [kind |-> "schema", err |-> TRUE]]
  /\ UNCHANGED <<pending, dbUp>>

(***************************************************************************)
(* Environment.                                                            *)
(***************************************************************************)
DbDown ==
  /\ dbUp
  /\ dbUp' = FALSE
  /\ UNCHANGED <<events, pending, pc, req, res, before>>

DbUp ==
  /\ ~dbUp
  /\ dbUp' = TRUE
  /\ UNCHANGED <<events, pending, pc, req, res, before>>

\* The caller has its answer and makes its next call.
Return(p) ==
  /\ pc[p] = "done"
  /\ pc' = [pc EXCEPT ![p] = "idle"]
  /\ req' = [req EXCEPT ![p] = NoReq]
  /\ res' = [res EXCEPT ![p] = NoRes]
  /\ before' = [before EXCEPT ![p] = {}]
  /\ UNCHANGED <<events, pending, dbUp>>

(***************************************************************************)
(* Spec: concurrent callers, one call each, and storage that becomes       *)
(* unreachable and reachable again.                                        *)
(***************************************************************************)
ConcTenants == Tenants
ConcEventIDs == {"e1"}
ConcEventNames == {"login"}
ConcTimes == {0, 2}
ConcBounds == 0..2

Next ==
  \/ \E p \in Procs :
       \/ \E t \in ConcTenants, i \in ConcEventIDs, n \in ConcEventNames,
             ts \in ConcTimes :
            StartIngest(p, t, i, n, ts, NilProps) /\ UNCHANGED <<hreq, keys>>
       \/ \E i \in ConcEventIDs, n \in ConcEventNames :
            StartIngest(p, "tenant1", i, n, 0, BadProps) /\ UNCHANGED <<hreq, keys>>
       \/ ExecInsert(p) /\ UNCHANGED <<hreq, keys>>
       \/ Commit(p) /\ UNCHANGED <<hreq, keys>>
       \/ Abort(p) /\ UNCHANGED <<hreq, keys>>
       \/ \E t \in ConcTenants, n \in ConcEventNames, from \in ConcBounds,
             to \in ConcBounds :
            StartCount(p, t, n, from, to) /\ UNCHANGED <<hreq, keys>>
       \/ ExecCount(p) /\ UNCHANGED <<hreq, keys>>
  \/ DbDown /\ UNCHANGED <<hreq, keys>>
  \/ DbUp /\ UNCHANGED <<hreq, keys>>

Spec == Init /\ [][Next]_vars

(***************************************************************************)
(* SpecSeq: one caller making call after call, over the full input         *)
(* domains; a statement may fail at any time.                              *)
(***************************************************************************)
\* tenant1 sends two events, tenant2 reuses the event_id of the first
SeqKeys == {<<"tenant1", "e1">>, <<"tenant1", "e2">>, <<"tenant2", "e1">>}

SeqNext ==
  \/ \E k \in SeqKeys, n \in EventNames, ts \in Times, pr \in Properties :
       \* properties are sent with the first key only
       /\ pr = NilProps \/ k = <<"tenant1", "e1">>
       /\ StartIngest(SeqProc, k[1], k[2], n, ts, pr)
       /\ UNCHANGED <<hreq, keys>>
  \/ \E t \in Tenants \cup {""}, i \in EventIDs \cup {""}, n \in EventNames \cup {""} :
       /\ t = "" \/ i = "" \/ n = ""
       /\ StartIngest(SeqProc, t, i, n, 0, NilProps)
       /\ UNCHANGED <<hreq, keys>>
  \/ ExecInsert(SeqProc) /\ UNCHANGED <<hreq, keys>>
  \/ Commit(SeqProc) /\ UNCHANGED <<hreq, keys>>
  \/ Abort(SeqProc) /\ UNCHANGED <<hreq, keys>>
  \/ \E t \in Tenants, n \in EventNames, from \in Bounds, to \in Bounds :
       StartCount(SeqProc, t, n, from, to) /\ UNCHANGED <<hreq, keys>>
  \/ ExecCount(SeqProc) /\ UNCHANGED <<hreq, keys>>
  \/ Return(SeqProc) /\ UNCHANGED <<hreq, keys>>

SpecSeq == Init /\ [][SeqNext]_vars

(***************************************************************************)
(* The HTTP layer: APIKeyMiddleware, the handlers of POST /events and      *)
(* GET /metrics up to the store call, GET /health and GET /ready.          *)
(***************************************************************************)
\* c.GetHeader of a header the request does not carry is the empty string.
NoHeader == "<absent>"
GetHeader(value) == IF value = NoHeader THEN "" ELSE value

\* strings.TrimSpace on the header values of the model
TrimSpace(str) ==
  CASE str = "   " -> ""
    [] str = " key1 " -> "key1"
    [] OTHER -> str

\* The values of X-API-Key the clients send.
APIKeyHeaders == {NoHeader, "", "   ", "bogus", "key1", " key1 ", "key2"}

\* Mutant: the 401 body tells a blank credential from an unknown one.
UnauthorizedLeaky(apiKey) ==
  [status |-> StatusUnauthorized,
   body |-> [error |-> IF apiKey = "" THEN "missing api key" ELSE "unauthorized"]]

\* c.AbortWithStatusJSON(401, {"error": "unauthorized"})
Unauthorized(apiKey) ==
  [status |-> StatusUnauthorized, body |-> [error |-> "unauthorized"]]

\* Mutant: every credential of the table is given the tenant of key1.
TenantIDOfFirstKey(header) ==
  IF TrimSpace(GetHeader(header)) \in DOMAIN keys THEN keys["key1"] ELSE ""

\* APIKeyMiddleware followed by auth.TenantID in the handler: the tenant of
\* the request, "" when the request was aborted.
TenantID(header) ==
  IF TrimSpace(GetHeader(header)) \in DOMAIN keys
  THEN keys[TrimSpace(GetHeader(header))]
  ELSE ""

\* Mutant: a credential the map does not hold is entered on its first use.
KeysAfterLookupLearning(header) ==
  IF TrimSpace(GetHeader(header)) \in DOMAIN keys \cup {""}
  THEN keys
  ELSE (TrimSpace(GetHeader(header)) :> "tenant1") @@ keys

\* The map after the middleware has handled a request: keys[apiKey] is a
\* read, nothing is written.
KeysAfterLookup(header) == keys

\* What the auth group does with a request: pass with a tenant, or 401.
AuthResponse(header) ==
  IF TenantID(header) = ""
  THEN [ok |-> FALSE, resp |-> Unauthorized(TrimSpace(GetHeader(header)))]
  ELSE [ok |-> TRUE, tenantID |-> TenantID(header)]

BadRequest(msg) == [status |-> StatusBadRequest, body |-> [error |-> msg]]

\* Timestamps on the wire.  TS0Plus1h is the instant of TS0 written in
\* another zone; TSHalfMicro is half a microsecond later, TS1Micro a whole one.
TS0 == "2026-02-13T20:00:00Z"
TS0Plus1h == "2026-02-13T21:00:00+01:00"
TSHalfMicro == "2026-02-13T20:00:00.0000005Z"
TS1Micro == "2026-02-13T20:00:00.000001Z"
TSMalformed == "2026-02-13 20:00"

\* time.Parse(time.RFC3339, s) followed by UTC(): the instant in ticks.
ParseRFC3339(str) ==
  CASE str = TS0 -> [ok |-> TRUE, t |-> 0]
    [] str = TS0Plus1h -> [ok |-> TRUE, t |-> 0]
    [] str = TSHalfMicro -> [ok |-> TRUE, t |-> 1]
    [] str = TS1Micro -> [ok |-> TRUE, t |-> TicksPerMicro]
    [] OTHER -> [ok |-> FALSE, t |-> 0]

\* Mutant: the handler checks nothing before it calls the store.
ValidateEventNothing(body) == ""

\* POST /events: ShouldBindJSON and the required fields; "" when valid.
ValidateEvent(body) ==
  IF body.syntax # "ok" THEN "invalid JSON payload"
  ELSE IF body.event_name = "" THEN "event_name required"
  ELSE IF body.timestamp = "" THEN "timestamp required"
  ELSE IF ~ParseRFC3339(body.timestamp).ok THEN "timestamp must be RFC3339"
  ELSE ""

\* GET /metrics: the required parameters and the window; "" when valid.
ValidateMetrics(query) ==
  IF query.event_name = "" \/ query.from = "" \/ query.to = ""
  THEN "event_name, from, to are required"
  ELSE IF ~ParseRFC3339(query.from).ok THEN "from must be RFC3339"
  ELSE IF ~ParseRFC3339(query.to).ok THEN "to must be RFC3339"
  ELSE IF ~(ParseRFC3339(query.from).t < ParseRFC3339(query.to).t)
       THEN "from must be < to"
  ELSE ""

\* Mutant: the payload event_id comes before the header.
EventIDForPayloadFirst(idemHeader, payloadID, generated) ==
  IF payloadID # "" THEN payloadID
  ELSE IF GetHeader(idemHeader) # "" THEN GetHeader(idemHeader)
  ELSE generated

\* Idempotency precedence: header, payload event_id, generated UUID.
EventIDFor(idemHeader, payloadID, generated) ==
  IF GetHeader(idemHeader) # "" THEN GetHeader(idemHeader)
  ELSE IF payloadID # "" THEN payloadID
  ELSE generated

\* The ids uuid.New() can return, and those some call or row already has.
UUIDSeq == <<"uuid-1", "uuid-2", "uuid-3", "uuid-4">>
UsedIDs ==
  {r.event_id : r \in events \cup pending}
    \cup {req[q].eventID : q \in {x \in Procs : req[x].op = "ingest"}}
UnusedUUIDs == {i \in DOMAIN UUIDSeq : UUIDSeq[i] \notin UsedIDs}

\* Mutant: the generated id is the same for every request.
NewUUIDFixed == UUIDSeq[1]

\* uuid.New().String(): an id that no call and no row has used.
NewUUID ==
  UUIDSeq[CHOOSE i \in UnusedUUIDs : \A j \in UnusedUUIDs : i <= j]

\* The request is answered without any call to the store.
Reject(p, resp) ==
  /\ pc' = [pc EXCEPT ![p] = "done"]
  /\ res' = [res EXCEPT ![p] = [kind |-> "rejected", resp |-> resp]]
  /\ before' = [before EXCEPT ![p] = Done]
  /\ UNCHANGED <<events, pending, dbUp, req>>

\* POST /events up to the call of InsertEvent.
PostEvents(p, h) ==
  /\ pc[p] = "idle"
  /\ hreq' = [hreq EXCEPT ![p] = h]
  /\ keys' = KeysAfterLookup(h.apiKey)
  /\ IF ~AuthResponse(h.apiKey).ok
     THEN Reject(p, AuthResponse(h.apiKey).resp)
     ELSE IF ValidateEvent(h.body) # ""
     THEN Reject(p, BadRequest(ValidateEvent(h.body)))
     ELSE /\ (GetHeader(h.idemKey) = "" /\ h.body.event_id = "")
               => UnusedUUIDs # {}
          /\ StartIngest(p, AuthResponse(h.apiKey).tenantID,
                         EventIDFor(h.idemKey, h.body.event_id, NewUUID),
                         h.body.event_name, ParseRFC3339(h.body.timestamp).t,
                         h.body.properties)

\* GET /metrics up to the call of CountEvents.
GetMetrics(p, h) ==
  /\ pc[p] = "idle"
  /\ hreq' = [hreq EXCEPT ![p] = h]
  /\ keys' = KeysAfterLookup(h.apiKey)
  /\ IF ~AuthResponse(h.apiKey).ok
     THEN Reject(p, AuthResponse(h.apiKey).resp)
     ELSE IF ValidateMetrics(h.query) # ""
     THEN Reject(p, BadRequest(ValidateMetrics(h.query)))
     ELSE StartCount(p, AuthResponse(h.apiKey).tenantID, h.query.event_name,
                     ParseRFC3339(h.query.from).t, ParseRFC3339(h.query.to).t)

\* GET /health
GetHealth(p, h) ==
  /\ pc[p] = "idle"
  /\ hreq' = [hreq EXCEPT ![p] = h]
  /\ pc' = [pc EXCEPT ![p] = "done"]
  /\ res' = [res EXCEPT ![p] =
               [kind |-> "health",
                resp |-> [status |-> StatusOK, body |-> [status |-> "ok"]]]]
  /\ before' = [before EXCEPT ![p] = Done]
  /\ UNCHANGED <<events, pending, dbUp, req, keys>>

\* Mutant: /ready answers ready whatever the ping returned.
ReadyResponseAlways(pingErr) ==
  [status |-> StatusOK, body |-> [status |-> "ready"]]

ReadyResponse(pingErr) ==
  IF pingErr
  THEN [status |-> StatusServiceUnavailable,
        body |-> [status |-> "not_ready", error |-> "ping failed"]]
  ELSE [status |-> StatusOK, body |-> [status |-> "ready"]]

\* GET /ready: st.Ping with a one second timeout; the ping fails when the
\* storage is unreachable and can run out of time when it is reachable.
GetReady(p, h) ==
  /\ pc[p] = "idle"
  /\ hreq' = [hreq EXCEPT ![p] = h]
  /\ pc' = [pc EXCEPT ![p] = "done"]
  /\ \E pingErr \in {e \in BOOLEAN : ~dbUp => e} :
       res' = [res EXCEPT ![p] =
                 [kind |-> "ready", pingErr |-> pingErr,
                  resp |-> ReadyResponse(pingErr)]]
  /\ before' = [before EXCEPT ![p] = Done]
  /\ UNCHANGED <<events, pending, dbUp, req, keys>>

\* The client closes its connection while the store call runs: the request
\* context passed to the store is cancelled.  The statement is abandoned
\* before it ran, rolled back, or has committed already; the method returns
\* the context's error.
Cancel(p) ==
  /\ hreq[p].route # "none"
  /\ hreq[p].conn = "open"
  /\ hreq' = [hreq EXCEPT ![p].conn = "closed"]
  /\ pc' = [pc EXCEPT ![p] = "done"]
  /\ \/ /\ pc[p] = "insert"
        /\ res' = [res EXCEPT ![p] = InsertResult(p, ErrQuery)]
        /\ UNCHANGED <<events, pending>>
     \/ /\ pc[p] = "pending"
        /\ pending' = pending \ {RowOf(p)}
        /\ res' = [res EXCEPT ![p] = InsertResult(p, ErrQuery)]
        /\ \/ events' = events
           \/ dbUp /\ events' = events \cup {RowOf(p)}
     \/ /\ pc[p] = "count"
        /\ res' = [res EXCEPT ![p] = CountResult(p, 0, TRUE)]
        /\ UNCHANGED <<events, pending>>
  /\ UNCHANGED <<dbUp, req, before, keys>>

PostBody(eventID, eventName, timestamp) ==
  [syntax |-> "ok", event_id |-> eventID, event_name |-> eventName,
   timestamp |-> timestamp, properties |-> NilProps]

PostRequest(apiKey, idemKey, body) ==
  [route |-> "POST /events", conn |-> "open", apiKey |-> apiKey,
   idemKey |-> idemKey, body |-> body]

MetricsRequest(apiKey, eventName, from, to) ==
  [route |-> "GET /metrics", conn |-> "open", apiKey |-> apiKey,
   query |-> [event_name |-> eventName, from |-> from, to |-> to]]

PlainRequest(route, apiKey) ==
  [route |-> route, conn |-> "open", apiKey |-> apiKey]

\* The request names a tenant where the handlers do not look: a tenant_id
\* member of the JSON payload (EventIngestRequest has no such field), a
\* tenant_id query parameter, an X-Tenant-ID header.
PostNamingTenant(apiKey, eventID, tenantID) ==
  [PostRequest(apiKey, NoHeader, PostBody(eventID, "login", TS0))
     EXCEPT !.body = @ @@ [tenant_id |-> tenantID]] @@ [xTenantID |-> tenantID]

MetricsNamingTenant(apiKey, tenantID) ==
  [MetricsRequest(apiKey, "login", TS0, TS1Micro)
     EXCEPT !.query = @ @@ [tenant_id |-> tenantID]] @@ [xTenantID |-> tenantID]

\* (Idempotency-Key, payload event_id) of the concurrent requests: one header
\* with two payload ids, one payload id under two headers, under no header,
\* and neither.
HttpKeys ==
  {<<"k1", "e1">>, <<"k1", "e2">>, <<"k2", "e1">>, <<NoHeader, "e1">>,
   <<NoHeader, "">>}

\* Payloads the handler refuses.
InvalidBodies ==
  {[PostBody("e1", "login", TS0) EXCEPT !.syntax = "bad"],
   PostBody("e1", "", TS0),
   PostBody("e1", "login", ""),
   PostBody("e1", "login", TSMalformed)}

\* Query strings the handler refuses.
InvalidQueries ==
  {[event_name |-> "", from |-> TS0, to |-> TS1Micro],
   [event_name |-> "login", from |-> "", to |-> TS1Micro],
   [event_name |-> "login", from |-> TS0, to |-> ""],
   [event_name |-> "login", from |-> TSMalformed, to |-> TS1Micro],
   [event_name |-> "login", from |-> TS0, to |-> TSMalformed],
   [event_name |-> "login", from |-> TS0, to |-> TS0Plus1h],
   [event_name |-> "login", from |-> TS1Micro, to |-> TS0]}

(***************************************************************************)
(* SpecHttp: concurrent clients, one request each, on POST /events and     *)
(* GET /metrics, with clients that hang up and storage that goes down.     *)
(***************************************************************************)
HttpNext ==
  \/ \E p \in Procs :
       \/ \E k \in HttpKeys :
            PostEvents(p, PostRequest("key1", k[1], PostBody(k[2], "login", TS0)))
       \/ GetMetrics(p, MetricsRequest("key1", "login", TS0, TS1Micro))
       \/ ExecInsert(p) /\ UNCHANGED <<hreq, keys>>
       \/ Commit(p) /\ UNCHANGED <<hreq, keys>>
       \/ Abort(p) /\ UNCHANGED <<hreq, keys>>
       \/ ExecCount(p) /\ UNCHANGED <<hreq, keys>>
       \/ Cancel(p)
  \/ DbDown /\ UNCHANGED <<hreq, keys>>
  \/ DbUp /\ UNCHANGED <<hreq, keys>>

SpecHttp == Init /\ [][HttpNext]_vars

(***************************************************************************)
(* SpecHttpSeq: one client sending request after request, over every       *)
(* credential, payload and query string of the model, on all four routes,  *)
(* and the schema script run again between requests.                       *)
(***************************************************************************)
HttpSeqNext ==
  \/ \E a \in APIKeyHeaders, k \in {NoHeader, "k1"}, i \in {"", "e1"},
        ts \in {TS0, TS0Plus1h, TSHalfMicro} :
       PostEvents(SeqProc, PostRequest(a, k, PostBody(i, "login", ts)))
  \/ \E b \in InvalidBodies :
       PostEvents(SeqProc, PostRequest("key1", "k1", b))
  \/ \E a \in APIKeyHeaders, to \in {TSHalfMicro, TS1Micro} :
       GetMetrics(SeqProc, MetricsRequest(a, "login", TS0, to))
  \/ \E q \in InvalidQueries :
       GetMetrics(SeqProc, [MetricsRequest("key1", "login", TS0, TS1Micro)
                              EXCEPT !.query = q])
  \/ \E a \in {"key1", "key2"}, t \in Tenants :
       PostEvents(SeqProc, PostNamingTenant(a, "e1", t))
  \/ \E a \in {"key1", "key2"}, t \in Tenants :
       GetMetrics(SeqProc, MetricsNamingTenant(a, t))
  \/ \E a \in APIKeyHeaders : GetHealth(SeqProc, PlainRequest("GET /health", a))
  \/ \E a \in APIKeyHeaders : GetReady(SeqProc, PlainRequest("GET /ready", a))
  \/ ExecInsert(SeqProc) /\ UNCHANGED <<hreq, keys>>
  \/ Commit(SeqProc) /\ UNCHANGED <<hreq, keys>>
  \/ Abort(SeqProc) /\ UNCHANGED <<hreq, keys>>
  \/ ExecCount(SeqProc) /\ UNCHANGED <<hreq, keys>>
  \/ \E t \in {"", "tenant1"}, i \in {"", "e1"}, n \in {"", "login"} :
       \* InsertEvent called with an empty argument
       /\ t = "" \/ i = "" \/ n = ""
       /\ StartIngest(SeqProc, t, i, n, 0, NilProps)
       /\ UNCHANGED <<hreq, keys>>
  \/ EnsureSchema(SeqProc) /\ UNCHANGED <<hreq, keys>>
  \/ Return(SeqProc) /\ hreq' = [hreq EXCEPT ![SeqProc] = NoHttp] /\ UNCHANGED keys
  \/ DbDown /\ UNCHANGED <<hreq, keys>>
  \/ DbUp /\ UNCHANGED <<hreq, keys>>

SpecHttpSeq == Init /\ [][HttpSeqNext]_vars

(***************************************************************************)
(* Helpers of the properties.                                              *)
(***************************************************************************)
Ingests == {p \in Procs : req[p].op = "ingest"}
Counts == {p \in Procs : req[p].op = "count"}

SameKey(p, q) ==
  /\ req[p].tenantID = req[q].tenantID
  /\ req[p].eventID = req[q].eventID

\* The calls made so far for the key of call p.
CallsFor(p) == {q \in Ingests : SameKey(p, q)}

Returned(p) == pc[p] = "done"
Created(p) == Returned(p) /\ ~res[p].err /\ res[p].inserted
Duplicate(p) == Returned(p) /\ ~res[p].err /\ ~res[p].inserted
Failed(p) == Returned(p) /\ res[p].err

RowsOf(table, tenantID, eventID) ==
  {r \in table : r.tenant_id = tenantID /\ r.event_id = eventID}

RowsFor(p) == RowsOf(events, req[p].tenantID, req[p].eventID)

SamePayload(p, q) ==
  /\ req[p].eventName = req[q].eventName
  /\ req[p].ts = req[q].ts
  /\ req[p].properties = req[q].properties

(***************************************************************************)
(* C1: two ingest calls with one key, the second made after the first has  *)
(* returned, both returning an outcome and no other call made for the key: *)
(* the first returns created, the second duplicate, and exactly one record *)
(* with the key is stored, whether or not the payloads differ.             *)
(***************************************************************************)
C1_CreatedThenDuplicate ==
  \A p \in Ingests, q \in Ingests :
    ( /\ p # q
      /\ SameKey(p, q)
      /\ p \in before[q]
      /\ Returned(q)
      /\ ~Failed(p)
      /\ ~Failed(q)
      /\ CallsFor(p) = {p, q} )
    => /\ Created(p)
       /\ Duplicate(q)
       /\ Cardinality(RowsFor(p)) = 1

C1_Witness ==
  \E p \in Ingests, q \in Ingests :
    /\ p # q
    /\ SameKey(p, q)
    /\ p \in before[q]
    /\ ~SamePayload(p, q)
    /\ Created(p)
    /\ Duplicate(q)

(***************************************************************************)
(* C2: when every call made for a key has returned an outcome (none        *)
(* failed), exactly one of them returned created, the others duplicate,    *)
(* and exactly one record with the key is stored, whatever the             *)
(* interleaving of the calls.                                              *)
(***************************************************************************)
C2_OneCreatedRestDuplicate ==
  \A p \in Ingests :
    (\A q \in CallsFor(p) : Returned(q) /\ ~Failed(q))
    => /\ Cardinality({q \in CallsFor(p) : Created(q)}) = 1
       /\ Cardinality({q \in CallsFor(p) : Duplicate(q)}) = Cardinality(CallsFor(p)) - 1
       /\ Cardinality(RowsFor(p)) = 1

\* two calls for one key that overlapped in time, one created, one duplicate
C2_Witness ==
  \E p \in Ingests, q \in Ingests :
    /\ p # q
    /\ SameKey(p, q)
    /\ p \notin before[q]
    /\ q \notin before[p]
    /\ Created(p)
    /\ Duplicate(q)

(***************************************************************************)
(* C3: the committed rows, the only ones a reader sees, never hold two     *)
(* rows with the same (tenant_id, event_id), also while ingests of that    *)
(* key are in progress.                                                    *)
(***************************************************************************)
C3_KeyUnique ==
  \A r1 \in events, r2 \in events :
    (r1.tenant_id = r2.tenant_id /\ r1.event_id = r2.event_id) => r1 = r2

\* a call waits on the uncommitted row of another call with its key
C3_Witness ==
  \E p \in Ingests, q \in Ingests :
    /\ p # q
    /\ SameKey(p, q)
    /\ pc[p] = "pending"
    /\ pc[q] = "insert"
    /\ RowOf(p) \in pending

\* What one tenant can observe of a table: every count and, for every
\* event_id, whether an ingest would find the key taken.
TenantView(table, tenantID) ==
  [counts |-> [n \in EventNames, from \in Bounds, to \in Bounds |->
                 CountEvents(table, tenantID, n, from, to)],
   taken |-> [i \in EventIDs |-> Conflict(table, tenantID, i)]]

\* Call p takes a step.
Steps(p) == pc'[p] # pc[p]

(***************************************************************************)
(* C4: no step of an ingest call under tenant A changes, for any other     *)
(* tenant B, the result of any count or the created/duplicate outcome of   *)
(* any ingest, also when A and B use the same event_id and event_name.     *)
(***************************************************************************)
C4_TenantIsolation ==
  [][\A p \in Procs, B \in Tenants :
       (Steps(p) /\ req'[p].op = "ingest" /\ req'[p].tenantID # B)
       => TenantView(events', B) = TenantView(events, B)]_vars

\* tenant A has just created an event whose event_id and event_name tenant
\* B already holds
C4_Witness ==
  \E p \in Ingests, r \in events :
    /\ Created(p)
    /\ r.tenant_id # req[p].tenantID
    /\ r.event_id = req[p].eventID
    /\ r.event_name = req[p].eventName
    /\ CountEvents(events, r.tenant_id, r.event_name, r.ts, r.ts + TicksPerMicro) = 1

(***************************************************************************)
(* C5: for every window from < to, the count equals the number of stored   *)
(* rows of the tenant and name with from <= occurred_at < to.              *)
(***************************************************************************)
C5_CountedIffInWindow ==
  \A t \in Tenants, n \in EventNames, from \in Bounds, to \in Bounds :
    from < to =>
      CountEvents(events, t, n, from, to) =
        Cardinality({r \in events : /\ r.tenant_id = t
                                    /\ r.event_name = n
                                    /\ from <= r.ts
                                    /\ r.ts < to})

(***************************************************************************)
(* C6: for every stored table, tenant, name and a < b < c, the count over  *)
(* [a, b) plus the count over [b, c) is the count over [a, c).             *)
(***************************************************************************)
C6_AdjacentWindowsAdd ==
  \A t \in Tenants, n \in EventNames, a \in Bounds, b \in Bounds, c \in Bounds :
    (a < b /\ b < c) =>
      CountEvents(events, t, n, a, b) + CountEvents(events, t, n, b, c)
        = CountEvents(events, t, n, a, c)

\* a count over [b, c) has returned with a stored event lying exactly on b,
\* the event being in [b, c) and not in [a, b)
C6_Witness ==
  \E p \in Counts, r \in events, a \in Bounds :
    /\ Returned(p) /\ ~res[p].err
    /\ r.tenant_id = req[p].tenantID
    /\ r.event_name = req[p].eventName
    /\ r.ts = req[p].from
    /\ a < req[p].from
    /\ res[p].count = 1
    /\ CountEvents(events, req[p].tenantID, req[p].eventName, a, req[p].from) = 0
    /\ CountEvents(events, req[p].tenantID, req[p].eventName, a, req[p].to) = 1

\* The events acknowledged as created before call c started that lie in the
\* window of c.
AckedInWindow(c) ==
  {q \in before[c] \cap Ingests :
     /\ Created(q)
     /\ req[q].tenantID = req[c].tenantID
     /\ req[q].eventName = req[c].eventName
     /\ req[c].from <= req[q].ts
     /\ req[q].ts < req[c].to}

(***************************************************************************)
(* C7: a count that starts after ingests have returned created counts at   *)
(* least every one of those events of its tenant and name whose timestamp  *)
(* t satisfies from <= t < to.                                             *)
(***************************************************************************)
C7_CountIncludesAcked ==
  \A c \in Counts :
    (Returned(c) /\ ~res[c].err) => res[c].count >= Cardinality(AckedInWindow(c))

(***************************************************************************)
(* C8: the step in which an ingest gets the duplicate answer leaves the    *)
(* stored rows as they were, so every count of every tenant, name and      *)
(* window is unchanged.                                                    *)
(***************************************************************************)
C8_DuplicateChangesNothing ==
  [][\A p \in Procs :
       (Steps(p) /\ pc'[p] = "done" /\ req[p].op = "ingest"
          /\ ~res'[p].err /\ ~res'[p].inserted)
       => /\ events' = events
          /\ \A t \in Tenants : TenantView(events', t) = TenantView(events, t)]_vars

\* a duplicate whose event_name, timestamp and properties all differ from
\* the stored row
C8_Witness ==
  \E p \in Ingests, r \in events :
    /\ Duplicate(p)
    /\ r \in RowsFor(p)
    /\ r.event_name # req[p].eventName
    /\ r.ts # ToTimestamptz(req[p].ts)
    /\ r.properties # Marshal(NormalizeProps(req[p].properties))

(***************************************************************************)
(* C9: whatever attempts for a key fail or are lost, at most one row with  *)
(* the key is stored, at most one attempt returns created, and an attempt  *)
(* that returns an outcome when another attempt's row is stored returns    *)
(* duplicate.                                                              *)
(***************************************************************************)
C9_RetrySafe ==
  \A p \in Ingests :
    /\ Cardinality(RowsOf(events, req[p].tenantID, req[p].eventID)) <= 1
    /\ Cardinality({q \in CallsFor(p) : Created(q)}) <= 1
    /\ (Returned(p) /\ ~Failed(p) /\ \E r \in RowsFor(p) : r.call # p)
         => Duplicate(p)

\* an attempt committed its row and failed all the same; the retry made
\* after it returned got duplicate
C9_Witness ==
  \E p \in Ingests, q \in Ingests :
    /\ p # q
    /\ SameKey(p, q)
    /\ Failed(p)
    /\ RowOf(p) \in events
    /\ p \in before[q]
    /\ Duplicate(q)

(***************************************************************************)
(* C10: the step in which a count gets its answer: with storage            *)
(* unreachable the answer is a failure; a failure is answered 500 with no  *)
(* count; a success is answered 200 with the number of matching rows, so a *)
(* successful 0 means no row matches.                                      *)
(***************************************************************************)
C10_CountFailureIsNotZero ==
  [][\A p \in Procs :
       (Steps(p) /\ pc[p] = "count")
       => /\ ~dbUp => res'[p].err
          /\ res'[p].err =>
               /\ res'[p].resp.status = StatusInternalServerError
               /\ "count" \notin DOMAIN res'[p].resp.body
          /\ ~res'[p].err =>
               /\ res'[p].resp.status = StatusOK
               /\ res'[p].resp.body.count =
                    Cardinality(Matching(events, req[p].tenantID, req[p].eventName,
                                         req[p].from, req[p].to))
          /\ (res'[p].resp.status = StatusOK /\ res'[p].resp.body.count = 0) =>
               Matching(events, req[p].tenantID, req[p].eventName,
                        req[p].from, req[p].to) = {}]_vars

\* a count failed with storage unreachable while a row matched its window
C10_Witness ==
  \E p \in Counts :
    /\ Failed(p)
    /\ ~dbUp
    /\ res[p].resp.status = StatusInternalServerError
    /\ Matching(events, req[p].tenantID, req[p].eventName,
                req[p].from, req[p].to) # {}

(***************************************************************************)
(* C11: the step in which an ingest gets its answer: with storage          *)
(* unreachable, or properties that cannot be serialized, the answer is a   *)
(* failure; a failure is answered 500, neither created nor duplicate;      *)
(* duplicate is answered only when a committed row already held the key    *)
(* and created only when this step stored this call's row.                 *)
(***************************************************************************)
C11_FailureIsDistinct ==
  [][\A p \in Procs :
       (Steps(p) /\ pc'[p] = "done" /\ req'[p].op = "ingest")
       => /\ (~dbUp \/ MarshalFails(req'[p].properties)) => res'[p].err
          /\ res'[p].err =>
               /\ ~res'[p].inserted
               /\ res'[p].resp.status = StatusInternalServerError
               /\ res'[p].resp.status \notin {StatusCreated, StatusOK}
               /\ "duplicate" \notin DOMAIN res'[p].resp.body
          /\ (~res'[p].err /\ ~res'[p].inserted) =>
               /\ Conflict(events, req'[p].tenantID, req'[p].eventID)
               /\ events' = events
          /\ (~res'[p].err /\ res'[p].inserted) =>
               /\ ~Conflict(events, req'[p].tenantID, req'[p].eventID)
               /\ events' = events \cup {RowOf(p)}]_vars

\* one ingest failed on its properties, another with storage unreachable,
\* and nothing is stored under their keys
C11_Witness ==
  \E p \in Ingests, q \in Ingests :
    /\ Failed(p) /\ MarshalFails(req[p].properties)
    /\ Failed(q) /\ ~MarshalFails(req[q].properties)
    /\ ~dbUp
    /\ RowsFor(p) = {} /\ RowsFor(q) = {}

\* Call p receives its request in this step.
Receives(p) == pc[p] = "idle" /\ pc'[p] # "idle"

\* The timestamps of the model that are RFC3339.
WellFormed == {TS0, TS0Plus1h, TSHalfMicro, TS1Micro}

\* The request carries a credential of the table.
Authenticated(h) == \E k \in DOMAIN APIKeys : TrimSpace(GetHeader(h.apiKey)) = k

\* A POST /events payload that fails validation.
InvalidPost(h) ==
  /\ h.route = "POST /events"
  /\ \/ h.body.syntax # "ok"
     \/ h.body.event_name = ""
     \/ h.body.timestamp \notin WellFormed

\* A GET /metrics query that fails validation.
InvalidGet(h) ==
  /\ h.route = "GET /metrics"
  /\ \/ h.query.event_name = ""
     \/ h.query.from \notin WellFormed
     \/ h.query.to \notin WellFormed
     \/ ParseRFC3339(h.query.from).t >= ParseRFC3339(h.query.to).t

(***************************************************************************)
(* C12: a request with a credential whose payload or query fails           *)
(* validation is answered 400 in the step that receives it, with no store  *)
(* call made and no row written; InsertEvent called with an empty          *)
(* tenant_id, event_id or event_name returns its error in the step of the  *)
(* call, with no row written.                                              *)
(***************************************************************************)
C12_InvalidRejectedBeforeStorage ==
  [][\A p \in Procs :
       Receives(p) =>
         /\ (hreq'[p] # hreq[p] /\ Authenticated(hreq'[p])
               /\ (InvalidPost(hreq'[p]) \/ InvalidGet(hreq'[p])))
              => /\ pc'[p] = "done"
                 /\ res'[p].kind = "rejected"
                 /\ res'[p].resp.status = StatusBadRequest
                 /\ req'[p] = NoReq
                 /\ events' = events /\ pending' = pending
         /\ (req'[p].op = "ingest"
               /\ (req'[p].tenantID = "" \/ req'[p].eventID = ""
                     \/ req'[p].eventName = ""))
              => /\ pc'[p] = "done"
                 /\ res'[p].err /\ ~res'[p].inserted
                 /\ events' = events /\ pending' = pending]_vars

\* a payload without event_name has been answered 400 while a row is stored
C12_Witness ==
  \E p \in Procs :
    /\ pc[p] = "done"
    /\ hreq[p].route = "POST /events"
    /\ hreq[p].body.syntax = "ok" /\ hreq[p].body.event_name = ""
    /\ res[p].kind = "rejected"
    /\ res[p].resp.status = StatusBadRequest
    /\ events # {}

(***************************************************************************)
(* C13: a request to POST /events or GET /metrics whose X-API-Key is       *)
(* missing, blank or not in the table is answered, in the step that        *)
(* receives it, with 401 and the one body {"error": "unauthorized"},       *)
(* with no store call made and no row written.                             *)
(***************************************************************************)
C13_UnauthorizedIndistinguishable ==
  [][\A p \in Procs :
       (Receives(p) /\ hreq'[p] # hreq[p]
          /\ hreq'[p].route \in {"POST /events", "GET /metrics"}
          /\ ~Authenticated(hreq'[p]))
       => /\ pc'[p] = "done"
          /\ res'[p] = [kind |-> "rejected",
                        resp |-> [status |-> StatusUnauthorized,
                                  body |-> [error |-> "unauthorized"]]]
          /\ req'[p] = NoReq
          /\ events' = events /\ pending' = pending]_vars

\* a well-formed POST with a credential that is not in the table has been
\* answered 401 while a row is stored
C13_Witness ==
  \E p \in Procs :
    /\ pc[p] = "done"
    /\ hreq[p].route = "POST /events"
    /\ hreq[p].apiKey = "bogus"
    /\ ~InvalidPost(hreq[p])
    /\ res[p].resp.status = StatusUnauthorized
    /\ req[p] = NoReq
    /\ events # {}

(***************************************************************************)
(* C14: in the step that answers POST /events after the store call: the    *)
(* answer is 201 with duplicate=false exactly when InsertEvent returned    *)
(* inserted (this step stored the row), 200 with duplicate=true exactly    *)
(* when it returned not inserted without error (a committed row held the   *)
(* key); both carry the event_id chosen as the key.                        *)
(***************************************************************************)
C14_DuplicateIsSuccess ==
  [][\A p \in Procs :
       (Steps(p) /\ pc'[p] = "done" /\ req'[p].op = "ingest"
          /\ hreq'[p].route = "POST /events")
       => /\ (res'[p].resp.status = StatusCreated)
               <=> (~res'[p].err /\ res'[p].inserted)
          /\ (res'[p].resp.status = StatusOK)
               <=> (~res'[p].err /\ ~res'[p].inserted)
          /\ res'[p].resp.status = StatusCreated =>
               /\ res'[p].resp.body.duplicate = FALSE
               /\ RowOf(p) \notin events /\ RowOf(p) \in events'
          /\ res'[p].resp.status = StatusOK =>
               /\ res'[p].resp.body.duplicate = TRUE
               /\ Conflict(events, req[p].tenantID, req[p].eventID)
               /\ events' = events
          /\ res'[p].resp.status \in {StatusCreated, StatusOK} =>
               /\ res'[p].resp.body.event_id = req[p].eventID
               /\ \E r \in events' : /\ r.tenant_id = req[p].tenantID
                                     /\ r.event_id = res'[p].resp.body.event_id]_vars

\* one request answered 201, a second with the same key answered 200
C14_Witness ==
  \E p \in Ingests, q \in Ingests :
    /\ SameKey(p, q)
    /\ Created(p) /\ res[p].resp.status = StatusCreated
    /\ Duplicate(q) /\ res[q].resp.status = StatusOK
    /\ res[q].resp.body.event_id = req[p].eventID

(***************************************************************************)
(* C15: for every stored table, tenant and name, and all windows with      *)
(* from2 <= from1 < to1 <= to2, the count over [from1, to1) is at most the *)
(* count over [from2, to2).                                                *)
(***************************************************************************)
C15_WiderWindowCountsMore ==
  \A t \in Tenants, n \in EventNames :
    \A from2 \in Bounds :
      \A to2 \in {x \in Bounds : from2 < x} :
        \A from1 \in {x \in Bounds : from2 <= x /\ x < to2} :
          \A to1 \in {x \in Bounds : from1 < x /\ x <= to2} :
            CountEvents(events, t, n, from1, to1)
              <= CountEvents(events, t, n, from2, to2)

\* a count over a window has returned fewer events than the table holds in
\* a strictly wider window
C15_Witness ==
  \E p \in Counts, from2 \in Bounds, to2 \in Bounds :
    /\ Returned(p) /\ ~res[p].err
    /\ from2 < req[p].from /\ req[p].to < to2
    /\ res[p].count = 1
    /\ CountEvents(events, req[p].tenantID, req[p].eventName,
                   req[p].from, req[p].to) = 1
    /\ CountEvents(events, req[p].tenantID, req[p].eventName, from2, to2) = 2

\* The request of call p was a valid one that reached the store.
ReachedStore(p) == req[p].op \in {"ingest", "count"}

(***************************************************************************)
(* C16: an ingest that has returned has exactly one of the outcomes        *)
(* created, duplicate, failure; it has created or duplicate only with the  *)
(* row committed; and no ingest or count that reached the store was        *)
(* abandoned by its caller before the outcome was known.                   *)
(***************************************************************************)
C16_BlockingNotCancellable ==
  \A p \in Procs :
    /\ (p \in Ingests /\ Returned(p)) =>
         /\ Cardinality({o \in {"created", "duplicate", "failure"} :
                            \/ o = "created" /\ Created(p)
                            \/ o = "duplicate" /\ Duplicate(p)
                            \/ o = "failure" /\ Failed(p)}) = 1
         /\ (Created(p) \/ Duplicate(p)) => RowsFor(p) # {}
    /\ (ReachedStore(p) /\ hreq[p].route # "none") => hreq[p].conn = "open"

(***************************************************************************)
(* C17: a count that has returned never counts more than the committed     *)
(* rows that match its window: a row that was written and then rolled back *)
(* is in no count.                                                         *)
(***************************************************************************)
C17_CountsCommittedOnly ==
  \A c \in Counts :
    (Returned(c) /\ ~res[c].err)
      => res[c].count <= CountEvents(events, req[c].tenantID, req[c].eventName,
                                     req[c].from, req[c].to)

\* a count overlapped an ingest of a matching event and returned 0; the
\* statement of the ingest was sent and the ingest ended in failure with
\* nothing stored
C17_Witness ==
  \E c \in Counts, p \in Ingests :
    /\ Returned(c) /\ ~res[c].err /\ res[c].count = 0
    /\ p \notin before[c] /\ c \notin before[p]
    /\ Failed(p)
    /\ ~MarshalFails(req[p].properties)
    /\ RowsFor(p) = {}
    /\ req[p].tenantID = req[c].tenantID
    /\ req[p].eventName = req[c].eventName
    /\ req[c].from <= req[p].ts /\ req[p].ts + TicksPerMicro <= req[c].to

(***************************************************************************)
(* C18: in the step that answers it, GET /ready is answered 200 exactly    *)
(* when the ping succeeded and 503 otherwise, and the ping fails when      *)
(* storage is unreachable; GET /health is answered 200 in every state;     *)
(* both are answered whatever X-API-Key the request carries, and neither   *)
(* makes a store call or changes a row.                                    *)
(***************************************************************************)
C18_HealthAndReady ==
  [][\A p \in Procs :
       (Receives(p) /\ hreq'[p] # hreq[p]
          /\ hreq'[p].route \in {"GET /health", "GET /ready"})
       => /\ pc'[p] = "done"
          /\ hreq'[p].route = "GET /health" =>
               res'[p].resp.status = StatusOK
          /\ hreq'[p].route = "GET /ready" =>
               /\ res'[p].resp.status = StatusOK <=> ~res'[p].pingErr
               /\ res'[p].resp.status = StatusServiceUnavailable <=> res'[p].pingErr
               /\ ~dbUp => res'[p].pingErr
          /\ res'[p].resp.status # StatusUnauthorized
          /\ req'[p] = NoReq
          /\ events' = events /\ pending' = pending /\ dbUp' = dbUp]_vars

\* with storage unreachable and a row stored, a /ready without credential
\* has been answered 503
C18_Witness ==
  \E p \in Procs :
    /\ pc[p] = "done"
    /\ hreq[p].route = "GET /ready"
    /\ hreq[p].apiKey = NoHeader
    /\ ~dbUp
    /\ res[p].resp.status = StatusServiceUnavailable
    /\ events # {}

\* The POST /events requests that reached the store.
Posts == {p \in Ingests : hreq[p].route = "POST /events"}

\* The request of p carries neither an Idempotency-Key nor an event_id.
Keyless(p) == GetHeader(hreq[p].idemKey) = "" /\ hreq[p].body.event_id = ""

UUIDs == {UUIDSeq[i] : i \in DOMAIN UUIDSeq}

(***************************************************************************)
(* C19: the key of a POST /events is the Idempotency-Key header when it is *)
(* not empty, else the payload event_id when it is not empty, else a       *)
(* generated id.  Two requests of one tenant with the same non-empty       *)
(* header have the same key whatever their payload event_id, and the one   *)
(* sent after the other was answered created is answered duplicate; two    *)
(* with the same payload event_id and different non-empty headers have     *)
(* different keys, and when both are answered two rows are stored, each    *)
(* request that was the only one with its key being created.               *)
(***************************************************************************)
C19_KeyPrecedence ==
  \A p \in Posts :
    /\ GetHeader(hreq[p].idemKey) # "" => req[p].eventID = hreq[p].idemKey
    /\ (GetHeader(hreq[p].idemKey) = "" /\ hreq[p].body.event_id # "")
         => req[p].eventID = hreq[p].body.event_id
    /\ Keyless(p) => req[p].eventID \in UUIDs
    /\ \A q \in Posts \ {p} :
         req[p].tenantID = req[q].tenantID =>
           /\ (GetHeader(hreq[p].idemKey) # "" /\ hreq[p].idemKey = hreq[q].idemKey)
                => /\ SameKey(p, q)
                   /\ (Created(p) /\ p \in before[q] /\ Returned(q) /\ ~Failed(q))
                        => Duplicate(q)
           /\ (hreq[p].body.event_id = hreq[q].body.event_id
                 /\ GetHeader(hreq[p].idemKey) # "" /\ GetHeader(hreq[q].idemKey) # ""
                 /\ hreq[p].idemKey # hreq[q].idemKey)
                => /\ ~SameKey(p, q)
                   /\ (Returned(p) /\ ~Failed(p) /\ Returned(q) /\ ~Failed(q))
                        => /\ Cardinality(RowsFor(p) \cup RowsFor(q)) = 2
                           /\ CallsFor(p) = {p} => Created(p)
                           /\ CallsFor(q) = {q} => Created(q)

\* the same header with different payload event_ids: created, then duplicate
C19_Witness ==
  \E p \in Posts, q \in Posts :
    /\ hreq[p].idemKey = hreq[q].idemKey
    /\ GetHeader(hreq[p].idemKey) # ""
    /\ hreq[p].body.event_id # "" /\ hreq[q].body.event_id # ""
    /\ hreq[p].body.event_id # hreq[q].body.event_id
    /\ Created(p)
    /\ p \in before[q]
    /\ Duplicate(q)
    /\ Cardinality(events) = 1

(***************************************************************************)
(* C20: a POST /events with neither Idempotency-Key nor payload event_id   *)
(* that is answered with an outcome is answered created, never duplicate,  *)
(* and has a row of its own; the count over a window holding the timestamp *)
(* is at least the number of such requests answered.                       *)
(***************************************************************************)
C20_KeylessAlwaysCreated ==
  LET answered == {p \in Posts : Keyless(p) /\ Returned(p) /\ ~Failed(p)}
  IN /\ \A p \in answered :
          /\ Created(p)
          /\ res[p].resp.status = StatusCreated
          /\ RowOf(p) \in events
     /\ \A t \in Tenants, n \in EventNames :
          LET same == {p \in answered : /\ req[p].tenantID = t
                                         /\ req[p].eventName = n
                                         /\ ToTimestamptz(req[p].ts) = 0}
          IN CountEvents(events, t, n, 0, TicksPerMicro) >= Cardinality(same)

\* two retries of one payload without any key: both created, count 2
C20_Witness ==
  \E p \in Posts, q \in Posts :
    /\ p # q
    /\ Keyless(p) /\ Keyless(q)
    /\ hreq[p].body = hreq[q].body
    /\ p \in before[q]
    /\ Created(p) /\ Created(q)
    /\ CountEvents(events, req[p].tenantID, req[p].eventName, 0, TicksPerMicro) = 2

\* The tenant the credential of request h resolves to in the table.
CredentialTenant(h) == APIKeys[TrimSpace(GetHeader(h.apiKey))]

(***************************************************************************)
(* C21: a POST /events or GET /metrics that reaches the store has a        *)
(* credential of the table and calls the store with the tenant that        *)
(* credential resolves to; every row written for a POST /events has that   *)
(* tenant_id, and a count is taken over that tenant's rows, also when the  *)
(* payload, the query string or another header names a different tenant.   *)
(***************************************************************************)
C21_TenantFromCredential ==
  [][\A p \in Procs :
       /\ (Receives(p) /\ hreq'[p].route \in {"POST /events", "GET /metrics"}
             /\ req'[p].op \in {"ingest", "count"})
            => /\ Authenticated(hreq'[p])
               /\ req'[p].tenantID = CredentialTenant(hreq'[p])
       /\ \A r \in (events' \cup pending') \ (events \cup pending) :
            (r.call = p /\ hreq[p].route = "POST /events")
              => r.tenant_id = CredentialTenant(hreq[p])
       /\ (Steps(p) /\ pc[p] = "count" /\ hreq[p].route = "GET /metrics"
             /\ ~res'[p].err)
            => res'[p].count =
                 CountEvents(events, CredentialTenant(hreq[p]), req[p].eventName,
                             req[p].from, req[p].to)]_vars

\* a POST with the credential of tenant2 whose payload and X-Tenant-ID
\* header name tenant1 has stored its row under tenant2, none under tenant1
C21_Witness ==
  \E p \in Posts :
    /\ Created(p)
    /\ hreq[p].apiKey = "key2"
    /\ "tenant_id" \in DOMAIN hreq[p].body
    /\ hreq[p].body.tenant_id = "tenant1"
    /\ hreq[p].xTenantID = "tenant1"
    /\ RowOf(p) \in events
    /\ RowOf(p).tenant_id = "tenant2"
    /\ \A r \in events : r.tenant_id # "tenant1"

\* The event_ids of tenant t for which an ingest with event_name n and a
\* timestamp in [from, to) has returned created.
CreatedIDs(t, n, from, to) ==
  {req[p].eventID : p \in {q \in Ingests : /\ Created(q)
                                            /\ req[q].tenantID = t
                                            /\ req[q].eventName = n
                                            /\ from <= req[q].ts
                                            /\ req[q].ts < to}}

(***************************************************************************)
(* C22: in every state, for every tenant, event_name and window from < to, *)
(* the count is the number of distinct event_ids of the tenant for which   *)
(* an ingest with that name and a timestamp in [from, to) has returned     *)
(* created.                                                                *)
(***************************************************************************)
C22_CountEqualsCreated ==
  \A t \in Tenants, n \in EventNames, from \in Bounds, to \in Bounds :
    from < to =>
      CountEvents(events, t, n, from, to) = Cardinality(CreatedIDs(t, n, from, to))

(***************************************************************************)
(* C23: no step removes or changes a stored row, so no step lowers the     *)
(* count of any tenant, event_name and window; a successful count returns  *)
(* the count of the table at the step that answers it, hence successive    *)
(* successful counts with the same arguments never go down.                *)
(***************************************************************************)
C23_CountsNeverDecrease ==
  [][/\ events \subseteq events'
     /\ events' # events =>
          \A t \in Tenants, n \in EventNames, from \in Bounds, to \in Bounds :
            from < to => CountEvents(events', t, n, from, to)
                           >= CountEvents(events, t, n, from, to)
     /\ \A p \in Procs :
          (Steps(p) /\ pc[p] = "count" /\ ~res'[p].err)
            => res'[p].count = CountEvents(events', req[p].tenantID, req[p].eventName,
                                           req[p].from, req[p].to)]_vars

\* a count has returned 2: the two events of its window were created one
\* after the other, by calls that have returned, and both are still stored
C23_Witness ==
  \E c \in Counts :
    /\ Returned(c) /\ ~res[c].err
    /\ res[c].count = 2
    /\ Cardinality(Matching(events, req[c].tenantID, req[c].eventName,
                            req[c].from, req[c].to)) = 2
    /\ Cardinality(events) = 2

(***************************************************************************)
(* C24: no step of an ingest call with event_name X changes, for the       *)
(* tenant of the call, the count of any other event_name over any window.  *)
(***************************************************************************)
C24_OtherNamesUnchanged ==
  [][\A p \in Procs :
       (Steps(p) /\ req'[p].op = "ingest")
       => \A n \in EventNames \ {req'[p].eventName}, from \in Bounds, to \in Bounds :
            from < to =>
              CountEvents(events', req'[p].tenantID, n, from, to)
                = CountEvents(events, req'[p].tenantID, n, from, to)]_vars

\* an ingest has created an event of one name for a tenant that holds an
\* event of another name at the same time: each name counts 1
C24_Witness ==
  \E p \in Ingests, r \in events :
    /\ Created(p)
    /\ r.tenant_id = req[p].tenantID
    /\ r.event_name # req[p].eventName
    /\ r.ts = ToTimestamptz(req[p].ts)
    /\ CountEvents(events, r.tenant_id, r.event_name, r.ts, r.ts + TicksPerMicro) = 1
    /\ CountEvents(events, r.tenant_id, req[p].eventName, r.ts, r.ts + TicksPerMicro) = 1

(***************************************************************************)
(* C25: no step of a GET /metrics request, whether it is answered with a   *)
(* count, refused for its query string or failed by the storage, changes a *)
(* stored or an uncommitted row; a successful count is the count of the    *)
(* stored rows for its arguments, so it is the same again on the same      *)
(* rows.                                                                   *)
(***************************************************************************)
C25_CountChangesNothing ==
  [][\A p \in Procs :
       (Steps(p) /\ hreq'[p].route = "GET /metrics")
       => /\ events' = events
          /\ pending' = pending
          /\ pc'[p] = "done" =>
               res'[p].resp.status \in {StatusOK, StatusBadRequest, StatusUnauthorized,
                                        StatusInternalServerError}
          /\ (pc'[p] = "done" /\ res'[p].resp.status = StatusOK) =>
               /\ req'[p] = req[p]
               /\ res'[p].resp.body.count =
                    CountEvents(events', req[p].tenantID, req[p].eventName,
                                req[p].from, req[p].to)]_vars

\* a count has been answered 200 with 1 and the row it counted is stored
C25_Witness ==
  \E c \in Counts :
    /\ hreq[c].route = "GET /metrics"
    /\ Returned(c) /\ ~res[c].err
    /\ res[c].resp.status = StatusOK
    /\ res[c].resp.body.count = 1
    /\ Cardinality(events) = 1
    /\ \A r \in events : r \in Matching(events, req[c].tenantID, req[c].eventName,
                                          req[c].from, req[c].to)

(***************************************************************************)
(* C26: the map of the middleware is the one built at startup in every     *)
(* state; no step of any request on any of the four routes, and no step of *)
(* the store, changes it, so every credential resolves to the same tenant, *)
(* or to none, before and after every step.                                *)
(***************************************************************************)
C26_KeysFixedAtStartup ==
  [][/\ keys = APIKeys
     /\ keys' = keys
     /\ \A a \in APIKeyHeaders : TenantID(a)' = TenantID(a)]_vars

\* a request with key2 has reached the store as tenant2 after an earlier
\* request stored a row of tenant1, and an unknown credential resolves to
\* no tenant
C26_Witness ==
  \E p \in Procs :
    /\ Returned(p)
    /\ hreq[p].route \in {"POST /events", "GET /metrics"}
    /\ hreq[p].apiKey = "key2"
    /\ ReachedStore(p)
    /\ req[p].tenantID = "tenant2"
    /\ \E r \in events : r.tenant_id = "tenant1"
    /\ TenantID("key1") = "tenant1"
    /\ TenantID("bogus") = ""
    /\ keys = APIKeys

(***************************************************************************)
(* C27: the step in which EnsureSchema runs again, whether it succeeds or  *)
(* fails, leaves every stored and every uncommitted row as it was; the     *)
(* stored rows still hold each (tenant_id, event_id) once, every count of  *)
(* every tenant, name and window is the same, and an ingest finds the same *)
(* keys taken.                                                             *)
(***************************************************************************)
C27_EnsureSchemaIdempotent ==
  [][\A p \in Procs :
       (Steps(p) /\ req'[p].op = "schema")
       => /\ events' = events
          /\ pending' = pending
          /\ \A r1 \in events', r2 \in events' :
               (r1.tenant_id = r2.tenant_id /\ r1.event_id = r2.event_id) => r1 = r2
          /\ \A t \in Tenants : TenantView(events', t) = TenantView(events, t)
          /\ \A r \in events : Conflict(events', r.tenant_id, r.event_id)]_vars

\* the script has run without error on a table that holds two rows, one of
\* them in the window [0, 1us) of tenant1
C27_Witness ==
  \E p \in Procs :
    /\ req[p].op = "schema"
    /\ Returned(p) /\ ~res[p].err
    /\ Cardinality(events) = 2
    /\ CountEvents(events, "tenant1", "login", 0, TicksPerMicro) >= 1

====
